---- MODULE Spec2Model ----
(***************************************************************************)
(* The dashboard component App (App.tsx): its React state, the wallet     *)
(* state it reads, and its six async handlers plus the connection-state   *)
(* effect.  An async handler runs atomically from one await to the next;  *)
(* a handler invocation suspended at an await is a record in `tasks`,     *)
(* whose pc names the external call it is waiting for.                    *)
(***************************************************************************)
EXTENDS Integers, Sequences, FiniteSets, TLC

(* ------------------------------ bounds -------------------------------- *)

\* Handler invocations the user or the wallet may have in flight at once.
MaxInFlight == 3

\* Token accounts a getParsedTokenAccountsByOwner response may list.
MaxAccounts == 2

\* Signatures the chain holds beyond the page size of the history query.
ExtraSigs == 1

(* ----------------------------- constants ------------------------------ *)

LAMPORTS_PER_SOL == 1000000000

\* { limit: 10 } of getSignaturesForAddress
HistoryLimit == 10

Null == "null"
Undefined == "undefined"
NoAlert == "none"
NoLog == "nothing"

Kinds == {"balance", "airdrop", "sign", "send", "tokens", "history"}

(* ------------------------------ numbers ------------------------------- *)

\* A JS number with at most nine decimals: whole + nano / 10^9.
Num(w, n) == [whole |-> w, nano |-> n]

Zero == Num(0, 0)

\* x / LAMPORTS_PER_SOL for an integer x of lamports
DivLamports(x) == Num(x \div LAMPORTS_PER_SOL, x % LAMPORTS_PER_SOL)

\* Number(s) * LAMPORTS_PER_SOL
MulLamports(x) == x.whole * LAMPORTS_PER_SOL + x.nano

\* x >= y on numbers
NumGeq(x, y) == \/ x.whole > y.whole
                \/ x.whole = y.whole /\ x.nano >= y.nano

(* --------------------------- the environment -------------------------- *)

\* connection.getBalance: a u64 of lamports
RawBalances == {0, 1500000000}

\* what the user can type in the airdrop field ("" is the empty field)
AirdropInputs == {"", "1"}

\* Number(airdropAmount)
NumberOf(s) == IF s = "1" THEN Num(1, 0) ELSE Zero

\* what the user can type in the amount field of the transfer card
TransferAmounts == {Num(1, 0), Num(2, 0)}

\* what the user can type in the receiver field
ReceiverInputs == {"validKey", "notBase58"}

VARIABLES
    connected,          \* wallet.connected; wallet.publicKey is non-null iff connected
    balance,            \* useState<number>(0)
    userTokens,         \* useState<Token[]>([])
    transactions,       \* useState<TransactionItem[]>([])
    isLoadingBalance,
    isAirdropping,
    isSending,
    airdropAmount,      \* useState<string>("")
    tasks,              \* per handler, the invocations suspended at an await, oldest first
    alert,              \* the alert() the last step raised, or NoAlert
    logged,             \* the console.error() of the last step, or NoLog
    stale               \* history: <<b>> when the stored balance is the answer to a refresh
                        \* that was waiting while b, the answer to a refresh started after
                        \* it, was stored; <<>> otherwise

vars == <<connected, balance, userTokens, transactions,
          isLoadingBalance, isAirdropping, isSending, airdropAmount, tasks,
          alert, logged, stale>>

(* ------------------------------ helpers ------------------------------- *)

Ok(v) == [ok |-> TRUE, value |-> v]

Thrown == [ok |-> FALSE]

RemoveAt(s, i) == SubSeq(s, 1, i - 1) \o SubSeq(s, i + 1, Len(s))

EmptyTasks == [k \in Kinds |-> <<>>]

Push(ts, k, t) == [ts EXCEPT ![k] = Append(@, t)]

Drop(ts, k, i) == [ts EXCEPT ![k] = RemoveAt(@, i)]

Move(ts, k, i, t) == [ts EXCEPT ![k][i] = t]

InFlight(ts) ==
    Len(ts["balance"]) + Len(ts["airdrop"]) + Len(ts["sign"])
        + Len(ts["send"]) + Len(ts["tokens"]) + Len(ts["history"])

\* The user and the wallet start at most MaxInFlight invocations at once.
HasRoom(n) == InFlight(tasks) + n <= MaxInFlight

\* v || d
OrElse(v, d) == IF v \in {Null, Undefined, ""} THEN d ELSE v

(* ------------------- the synchronous head of each fetch ---------------- *)
(* Each is the part of the handler up to its first await, as a function   *)
(* of the wallet the calling closure captured (pk: publicKey non-null,    *)
(* conn: connected).                                                      *)

\* handleShowBalance: if (!wallet.publicKey) return; getBalance is called
ShowBalanceCall(pk, ts) ==
    IF ~pk THEN ts ELSE Push(ts, "balance", [pc |-> "getBalance", pk |-> pk,
                                         overtaken |-> <<>>])

\* handleShowBalance: setIsLoadingBalance(true), unless it returned at once
ShowBalanceLoading(pk, loading) == IF ~pk THEN loading ELSE TRUE

\* fetchTokens: if (!wallet.publicKey) return; the enumeration is called
FetchTokensCall(pk, ts) ==
    IF ~pk THEN ts
    ELSE Push(ts, "tokens", [pc |-> "getParsedTokenAccountsByOwner", pk |-> pk])

\* handleFetchHistory: if (!wallet.connected || !wallet.publicKey) return
FetchHistoryCall(conn, pk, ts) ==
    IF ~conn \/ ~pk THEN ts
    ELSE Push(ts, "history", [pc |-> "getSignaturesForAddress", pk |-> pk])

(* -------------------- the connection-state effect --------------------- *)
(* useEffect(..., [wallet.connected, connection]): runs after the mount   *)
(* and after every change of wallet.connected.                           *)


\* mutant: the effect forgets fetchTokens()
EffectTasksNoTokens(conn, ts) ==
    IF conn THEN FetchHistoryCall(conn, conn, ShowBalanceCall(conn, ts)) ELSE ts

EffectTasks(conn, ts) ==
    IF conn
    THEN FetchHistoryCall(conn, conn, FetchTokensCall(conn, ShowBalanceCall(conn, ts)))
    ELSE ts

EffectLoading(conn, loading) ==
    IF conn THEN ShowBalanceLoading(conn, loading) ELSE loading

EffectBalance(conn, b) == IF conn THEN b ELSE Zero


\* mutant: the else branch of the effect forgets setUserTokens([])
EffectUserTokensKept(conn, toks) == toks

EffectUserTokens(conn, toks) == IF conn THEN toks ELSE <<>>

EffectTransactions(conn, txs) == IF conn THEN txs ELSE <<>>

\* The state after the first render and its effect, for a wallet that is
\* (conn) or is not yet connected when the component mounts.
Init ==
    \E conn \in BOOLEAN :
        /\ connected = conn
        /\ balance = EffectBalance(conn, Zero)
        /\ userTokens = EffectUserTokens(conn, <<>>)
        /\ transactions = EffectTransactions(conn, <<>>)
        /\ isLoadingBalance = EffectLoading(conn, FALSE)
        /\ isAirdropping = FALSE
        /\ isSending = FALSE
        /\ airdropAmount = ""
        /\ tasks = EffectTasks(conn, EmptyTasks)
        /\ alert = NoAlert
        /\ logged = NoLog
        /\ stale = <<>>

\* wallet.connected changes to conn; the component re-renders and the effect runs.
ConnectionChange(conn) ==
    /\ connected # conn
    /\ conn => HasRoom(3)
    /\ connected' = conn
    /\ balance' = EffectBalance(conn, balance)
    /\ userTokens' = EffectUserTokens(conn, userTokens)
    /\ transactions' = EffectTransactions(conn, transactions)
    /\ isLoadingBalance' = EffectLoading(conn, isLoadingBalance)
    /\ tasks' = EffectTasks(conn, tasks)
    /\ alert' = NoAlert
    /\ logged' = NoLog
    /\ stale' = IF conn THEN stale ELSE <<>>
    /\ UNCHANGED <<isAirdropping, isSending, airdropAmount>>

(* --------------------------- handleShowBalance ------------------------ *)


\* mutant: setBalance(balance), the lamports stored unscaled
ScaledBalanceRaw(raw) == Num(raw, 0)

\* setBalance(balance / LAMPORTS_PER_SOL)
ScaledBalance(raw) == DivLamports(raw)


\* mutant: the catch block of handleShowBalance stores 0
BalanceAfterCleared(r, b) == IF r.ok THEN ScaledBalance(r.value) ELSE Zero

\* the balance after getBalance answered r
BalanceAfter(r, b) == IF r.ok THEN ScaledBalance(r.value) ELSE b


\* mutant: setIsLoadingBalance(false) at the end of the try block, not in finally
LoadingAfterTryOnly(r, loading) == IF r.ok THEN FALSE ELSE loading

\* finally { setIsLoadingBalance(false) }
LoadingAfter(r, loading) == FALSE

\* catch { console.error("Error fetching balance:", error) }
BalanceFailureLog == "Error fetching balance:"

\* what handleShowBalance logs after getBalance answered r
BalanceLog(r) == IF r.ok THEN NoLog ELSE BalanceFailureLog

\* the Refresh Balance button has no disabled attribute: isLoadingBalance only
\* swaps the figure for a placeholder
RefreshDisabled(loading) == FALSE

\* the Refresh Balance button
ClickRefreshBalance ==
    /\ ~RefreshDisabled(isLoadingBalance)
    /\ HasRoom(1)
    /\ tasks' = ShowBalanceCall(connected, tasks)
    /\ isLoadingBalance' = ShowBalanceLoading(connected, isLoadingBalance)
    /\ alert' = NoAlert
    /\ logged' = NoLog
    /\ UNCHANGED stale
    /\ UNCHANGED <<connected, balance, userTokens, transactions,
                   isAirdropping, isSending, airdropAmount>>

\* history: the refreshes started before the i-th and still waiting have been
\* overtaken by its answer, stored as b
Overtake(ts, i, b) ==
    [ts EXCEPT !["balance"] =
        [j \in 1..Len(@) |-> IF j < i THEN [@[j] EXCEPT !.overtaken = <<b>>] ELSE @[j]]]


\* mutant: handleShowBalance drops the answer to a refresh that was overtaken
AppliedIfNewest(t) == t.overtaken = <<>>

\* whether handleShowBalance uses the answer to the refresh t: always, whatever
\* was stored while t was waiting
Applied(t) == TRUE

\* getBalance of the i-th waiting handleShowBalance answers r
BalanceResume(i, r) ==
    /\ i \in 1..Len(tasks["balance"])
    /\ LET t == tasks["balance"][i]
           stored == r.ok /\ Applied(t)
       IN  /\ balance' = IF Applied(t) THEN BalanceAfter(r, balance) ELSE balance
           /\ stale' = IF stored THEN t.overtaken ELSE stale
           /\ tasks' = Drop(IF stored THEN Overtake(tasks, i, balance') ELSE tasks,
                            "balance", i)
    /\ isLoadingBalance' = LoadingAfter(r, isLoadingBalance)
    /\ alert' = NoAlert
    /\ logged' = BalanceLog(r)
    /\ UNCHANGED <<connected, userTokens, transactions,
                   isAirdropping, isSending, airdropAmount>>

BalanceAnswers == {Ok(v) : v \in RawBalances} \cup {Thrown}

(* ----------------------------- handleAirdrop -------------------------- *)

AirdropCalls == <<"requestAirdrop", "getLatestBlockhash", "confirmTransaction">>

\* the call after the pc-th of a chain of awaited calls
CallAfter(calls, pc) ==
    LET k == CHOOSE j \in 1..Len(calls) : calls[j] = pc
    IN  IF k < Len(calls) THEN calls[k + 1] ELSE "done"

\* the airdrop input field
TypeAirdropAmount(a) ==
    /\ a # airdropAmount
    /\ airdropAmount' = a
    /\ alert' = NoAlert
    /\ logged' = NoLog
    /\ UNCHANGED stale
    /\ UNCHANGED <<connected, balance, userTokens, transactions,
                   isLoadingBalance, isAirdropping, isSending, tasks>>

\* disabled={isAirdropping}
AirdropDisabled(busy) == busy

\* the airdrop button
ClickAirdrop ==
    /\ ~AirdropDisabled(isAirdropping)
    /\ HasRoom(1)
    /\ IF ~connected \/ airdropAmount = ""
       THEN UNCHANGED <<isAirdropping, tasks>>
       ELSE /\ isAirdropping' = TRUE
            /\ tasks' = Push(tasks, "airdrop",
                             [pc |-> "requestAirdrop", pk |-> connected,
                              lamports |-> MulLamports(NumberOf(airdropAmount))])
    /\ alert' = NoAlert
    /\ logged' = NoLog
    /\ UNCHANGED stale
    /\ UNCHANGED <<connected, balance, userTokens, transactions,
                   isLoadingBalance, isSending, airdropAmount>>


\* mutant: handleAirdrop refreshes the balance without waiting for the confirmation
AirdropNextUnconfirmed(pc, pk) ==
    IF pc = "requestAirdrop" THEN (IF pk THEN "getBalance" ELSE "done")
    ELSE IF CallAfter(AirdropCalls, pc) # "done" THEN CallAfter(AirdropCalls, pc)
    ELSE "done"

\* what handleAirdrop does when the call it awaits at pc returns: the next call
\* of the chain, and after confirmTransaction the awaited handleShowBalance()
AirdropNext(pc, pk) ==
    IF CallAfter(AirdropCalls, pc) # "done" THEN CallAfter(AirdropCalls, pc)
    ELSE IF pk THEN "getBalance" ELSE "done"

\* alert("Airdrop successful!") after the awaited handleShowBalance()
AirdropSuccessAlert == "Airdrop successful!"

\* catch { alert("Airdrop failed") }
AirdropFailureAlert == "Airdrop failed"

\* catch { console.error("Airdrop failed:", error) }
AirdropFailureLog == "Airdrop failed:"

\* finally { setIsAirdropping(false); setAirdropAmount("") }
AirdropFinally ==
    /\ isAirdropping' = FALSE
    /\ airdropAmount' = ""

\* requestAirdrop, getLatestBlockhash or confirmTransaction returns
AirdropAdvance(i) ==
    /\ i \in 1..Len(tasks["airdrop"])
    /\ LET t == tasks["airdrop"][i]
           n == AirdropNext(t.pc, t.pk)
       IN  /\ t.pc # "getBalance"
           /\ IF n = "done"
              THEN /\ alert' = AirdropSuccessAlert
                   /\ logged' = NoLog
                   /\ UNCHANGED stale
                   /\ tasks' = Drop(tasks, "airdrop", i)
                   /\ AirdropFinally
                   /\ UNCHANGED isLoadingBalance
              ELSE /\ alert' = NoAlert
                   /\ logged' = NoLog
                   /\ UNCHANGED stale
                   /\ tasks' = Move(tasks, "airdrop", i, [t EXCEPT !.pc = n])
                   /\ isLoadingBalance' =
                          IF n = "getBalance"
                          THEN ShowBalanceLoading(t.pk, isLoadingBalance)
                          ELSE isLoadingBalance
                   /\ UNCHANGED <<isAirdropping, airdropAmount>>
    /\ UNCHANGED <<connected, balance, userTokens, transactions,
                   isSending>>

\* requestAirdrop, getLatestBlockhash or confirmTransaction throws
AirdropFail(i) ==
    /\ i \in 1..Len(tasks["airdrop"])
    /\ tasks["airdrop"][i].pc # "getBalance"
    /\ alert' = AirdropFailureAlert
    /\ logged' = AirdropFailureLog
    /\ UNCHANGED stale
    /\ tasks' = Drop(tasks, "airdrop", i)
    /\ AirdropFinally
    /\ UNCHANGED <<connected, balance, userTokens, transactions,
                   isLoadingBalance, isSending>>

\* getBalance of the awaited handleShowBalance() answers r; handleShowBalance
\* catches its own error, so handleAirdrop goes on to the success alert
AirdropFinish(i, r) ==
    /\ i \in 1..Len(tasks["airdrop"])
    /\ tasks["airdrop"][i].pc = "getBalance"
    /\ balance' = BalanceAfter(r, balance)
    /\ isLoadingBalance' = LoadingAfter(r, isLoadingBalance)
    /\ alert' = AirdropSuccessAlert
    /\ logged' = BalanceLog(r)
    /\ stale' = IF r.ok THEN <<>> ELSE stale
    /\ tasks' = Drop(tasks, "airdrop", i)
    /\ AirdropFinally
    /\ UNCHANGED <<connected, userTokens, transactions, isSending>>

(* --------------------------- handleSignMessage ------------------------ *)

Message == "Verify your account by signing this message"

WalletKey == "walletKey"

\* what wallet.signMessage can return: a signature by some key over some
\* bytes, intact or with a bit flipped
Signatures ==
    [signer : {WalletKey, "otherKey"}, msg : {Message}, intact : BOOLEAN]

SignAnswers == {Ok(sig) : sig \in Signatures} \cup {Thrown}

\* ed25519.verify(signature, message, publicKey)
Verify(sig, msg, key) == sig.intact /\ sig.msg = msg /\ sig.signer = key

SignSuccessAlert == "Message signed and verified successfully!"

SignFailureAlert == "Sign message failed"

\* catch { console.error("Sign message failed:", error) }
SignFailureLog == "Sign message failed:"

\* if (!wallet.publicKey || !wallet.signMessage) throw
SignRefused(pk, cap) == ~pk \/ ~cap


\* mutant: handleSignMessage does not verify the signature it got
SignAlertUnverified(r) == IF r.ok THEN SignSuccessAlert ELSE SignFailureAlert

\* the alert after wallet.signMessage answered r
SignAlert(r) ==
    IF r.ok /\ Verify(r.value, Message, WalletKey)
    THEN SignSuccessAlert ELSE SignFailureAlert

\* what handleSignMessage logs after wallet.signMessage answered r
SignLog(r) ==
    IF r.ok /\ Verify(r.value, Message, WalletKey) THEN NoLog ELSE SignFailureLog

\* the Sign Verif. Message button, with a wallet that has (cap) or lacks the
\* signMessage capability
ClickSign(cap) ==
    /\ IF SignRefused(connected, cap)
       THEN /\ alert' = SignFailureAlert
            /\ logged' = SignFailureLog
            /\ UNCHANGED stale
            /\ UNCHANGED tasks
       ELSE /\ HasRoom(1)
            /\ alert' = NoAlert
            /\ logged' = NoLog
            /\ UNCHANGED stale
            /\ tasks' = Push(tasks, "sign", [pc |-> "signMessage", pk |-> connected])
    /\ UNCHANGED <<connected, balance, userTokens, transactions,
                   isLoadingBalance, isAirdropping, isSending, airdropAmount>>

\* wallet.signMessage answers r
SignResume(i, r) ==
    /\ i \in 1..Len(tasks["sign"])
    /\ alert' = SignAlert(r)
    /\ logged' = SignLog(r)
    /\ UNCHANGED stale
    /\ tasks' = Drop(tasks, "sign", i)
    /\ UNCHANGED <<connected, balance, userTokens, transactions,
                   isLoadingBalance, isAirdropping, isSending, airdropAmount>>

(* --------------------------- handleSendTokens ------------------------- *)

SendCalls == <<"sendTransaction", "getLatestBlockhash", "confirmTransaction">>

SendSuccessAlert == "Transaction successful!"

SendFailureAlert == "Transaction failed"

\* catch { console.error("Send failed:", error) }
SendFailureLog == "Send failed:"

\* new PublicKey(receiverAddress) does not throw
ValidKey(rcv) == rcv = "validKey"

\* what makes handleSendTokens throw before wallet.sendTransaction, for the
\* amount and the receiver typed and the balance cached
SendRefused(conn, pk, amt, rcv, bal) == ~conn \/ ~pk \/ ~ValidKey(rcv)


\* mutant: the Send Transaction button is disabled={!wallet.connected}
SendDisabledWhenDisconnected(busy, conn) == ~conn

\* disabled={isSending || !wallet.connected}
SendDisabled(busy, conn) == busy \/ ~conn

\* the Send Transaction button, with what the two input fields hold
ClickSend(amt, rcv) ==
    /\ ~SendDisabled(isSending, connected)
    /\ HasRoom(1)
    /\ IF SendRefused(connected, connected, amt, rcv, balance)
       THEN /\ alert' = SendFailureAlert
            /\ logged' = SendFailureLog
            /\ UNCHANGED stale
            /\ isSending' = FALSE
            /\ UNCHANGED tasks
       ELSE /\ alert' = NoAlert
            /\ logged' = NoLog
            /\ UNCHANGED stale
            /\ isSending' = TRUE
            /\ tasks' = Push(tasks, "send",
                             [pc |-> "sendTransaction", pk |-> connected,
                              conn |-> connected, lamports |-> MulLamports(amt)])
    /\ UNCHANGED <<connected, balance, userTokens, transactions,
                   isLoadingBalance, isAirdropping, airdropAmount>>


\* mutant: handleSendTokens forgets handleFetchHistory()
SendRefreshesBalanceOnly(conn, pk, ts) == ShowBalanceCall(pk, ts)

\* handleShowBalance(); handleFetchHistory(); neither is awaited
SendRefreshes(conn, pk, ts) == FetchHistoryCall(conn, pk, ShowBalanceCall(pk, ts))

\* sendTransaction, getLatestBlockhash or confirmTransaction returns
SendAdvance(i) ==
    /\ i \in 1..Len(tasks["send"])
    /\ LET t == tasks["send"][i]
           n == CallAfter(SendCalls, t.pc)
       IN  IF n = "done"
           THEN /\ alert' = SendSuccessAlert
                /\ logged' = NoLog
                /\ UNCHANGED stale
                /\ tasks' = SendRefreshes(t.conn, t.pk, Drop(tasks, "send", i))
                /\ isLoadingBalance' = ShowBalanceLoading(t.pk, isLoadingBalance)
                /\ isSending' = FALSE
           ELSE /\ alert' = NoAlert
                /\ logged' = NoLog
                /\ UNCHANGED stale
                /\ tasks' = Move(tasks, "send", i, [t EXCEPT !.pc = n])
                /\ UNCHANGED <<isLoadingBalance, isSending>>
    /\ UNCHANGED <<connected, balance, userTokens, transactions,
                   isAirdropping, airdropAmount>>

\* sendTransaction, getLatestBlockhash or confirmTransaction throws
SendFail(i) ==
    /\ i \in 1..Len(tasks["send"])
    /\ alert' = SendFailureAlert
    /\ logged' = SendFailureLog
    /\ UNCHANGED stale
    /\ tasks' = Drop(tasks, "send", i)
    /\ isSending' = FALSE
    /\ UNCHANGED <<connected, balance, userTokens, transactions,
                   isLoadingBalance, isAirdropping, airdropAmount>>

(* ------------------------------ fetchTokens --------------------------- *)

\* the i-th token account of a getParsedTokenAccountsByOwner response
TokenAccount(i) == [pubkey |-> i, lamports |-> 2039280 + i]

\* accounts.value of a response listing n accounts
AccountList(n) == [i \in 1..n |-> TokenAccount(i)]

TokenAccountAnswers == {Ok(AccountList(n)) : n \in 0..MaxAccounts} \cup {Thrown}

\* what the chain holds for a token account: its metadata, or none (then
\* metadata?.name and metadata?.symbol are undefined)
MetadataOf(account) ==
    IF account.pubkey % 2 = 1
    THEN [name |-> "Gold", symbol |-> "GLD"]
    ELSE [name |-> Undefined, symbol |-> Undefined]

\* getTokenMetadata(connection, account.pubkey): what the chain holds, or a throw
MetadataAnswers(account) == {Ok(MetadataOf(account)), Thrown}

\* every answer getTokenMetadata can give
AllMetadataAnswers == UNION {MetadataAnswers(TokenAccount(i)) : i \in 1..(MaxAccounts + 1)}

\* a promise of tokenPromises: not settled, or settled with a Token or with null
Unsettled == [settled |-> FALSE, token |-> <<>>]


\* mutant: the inner catch returns a placeholder entry instead of null
TokenResultPlaceholder(account, r) ==
    [settled |-> TRUE,
     token |-> << [name |-> IF r.ok THEN OrElse(r.value.name, "Unknown Token")
                            ELSE "Unknown Token",
                   symbol |-> IF r.ok THEN OrElse(r.value.symbol, "UNK") ELSE "UNK",
                   balance |-> account.lamports,
                   pubKey |-> account.pubkey] >>]

\* the value one mapped promise settles with
TokenResult(account, r) ==
    IF r.ok
    THEN [settled |-> TRUE,
          token |-> << [name |-> OrElse(r.value.name, "Unknown Token"),
                        symbol |-> OrElse(r.value.symbol, "UNK"),
                        balance |-> account.lamports,
                        pubKey |-> account.pubkey] >>]
    ELSE [settled |-> TRUE, token |-> <<>>]

\* results.filter(t => t !== null)
RECURSIVE NonNull(_)
NonNull(results) ==
    IF results = <<>> THEN <<>>
    ELSE Head(results).token \o NonNull(Tail(results))

AllSettled(results) == \A j \in 1..Len(results) : results[j].settled

\* catch { console.error("Token fetch failed", error) }
TokenFailureLog == "Token fetch failed"

\* what fetchTokens logs after getParsedTokenAccountsByOwner answered r
TokenLog(r) == IF r.ok THEN NoLog ELSE TokenFailureLog

\* the Your Tokens refresh button
ClickFetchTokens ==
    /\ HasRoom(1)
    /\ tasks' = FetchTokensCall(connected, tasks)
    /\ alert' = NoAlert
    /\ logged' = NoLog
    /\ UNCHANGED stale
    /\ UNCHANGED <<connected, balance, userTokens, transactions,
                   isLoadingBalance, isAirdropping, isSending, airdropAmount>>

\* getParsedTokenAccountsByOwner answers r: every getTokenMetadata is called;
\* Promise.all of no promise resolves at once
TokensEnumerated(i, r) ==
    /\ i \in 1..Len(tasks["tokens"])
    /\ LET t == tasks["tokens"][i]
       IN  /\ t.pc = "getParsedTokenAccountsByOwner"
           /\ IF ~r.ok
              THEN /\ tasks' = Drop(tasks, "tokens", i)
                   /\ UNCHANGED userTokens
              ELSE IF r.value = <<>>
              THEN /\ tasks' = Drop(tasks, "tokens", i)
                   /\ userTokens' = NonNull(<<>>)
              ELSE /\ tasks' = Move(tasks, "tokens", i,
                                    [pc |-> "getTokenMetadata", pk |-> t.pk,
                                     accounts |-> r.value,
                                     results |-> [j \in 1..Len(r.value) |-> Unsettled]])
                   /\ UNCHANGED userTokens
    /\ alert' = NoAlert
    /\ logged' = TokenLog(r)
    /\ UNCHANGED stale
    /\ UNCHANGED <<connected, balance, transactions,
                   isLoadingBalance, isAirdropping, isSending, airdropAmount>>

\* getTokenMetadata of the j-th account answers r; the last answer resolves
\* Promise.all and the list is stored.  The answers are taken in the order of
\* the accounts: each callback fills its own slot of tokenPromises and nothing
\* reads a slot before Promise.all resolves, so any other order of arrival
\* ends in the same state.
MetadataResume(i, j, r) ==
    /\ i \in 1..Len(tasks["tokens"])
    /\ LET t == tasks["tokens"][i]
       IN  /\ t.pc = "getTokenMetadata"
           /\ j \in 1..Len(t.results)
           /\ ~t.results[j].settled
           /\ \A m \in 1..(j - 1) : t.results[m].settled
           /\ r \in MetadataAnswers(t.accounts[j])
           /\ LET results == [t.results EXCEPT ![j] = TokenResult(t.accounts[j], r)]
              IN  IF AllSettled(results)
                  THEN /\ userTokens' = NonNull(results)
                       /\ tasks' = Drop(tasks, "tokens", i)
                  ELSE /\ tasks' = Move(tasks, "tokens", i, [t EXCEPT !.results = results])
                       /\ UNCHANGED userTokens
    /\ alert' = NoAlert
    /\ logged' = NoLog
    /\ UNCHANGED stale
    /\ UNCHANGED <<connected, balance, transactions,
                   isLoadingBalance, isAirdropping, isSending, airdropAmount>>

(* --------------------------- handleFetchHistory ----------------------- *)

\* TransactionConfirmationStatus; the field is optional in the RPC answer
ChainStatuses == <<Undefined, "processed", "confirmed", "finalized">>

\* the k-th newest signature of the address, in chain history v; blockTime is
\* <<>> when the node has none
SignatureInfo(k, v) ==
    [signature |-> k,
     blockTime |-> IF (k + v) % 2 = 0 THEN <<>> ELSE <<k>>,
     confirmationStatus |-> ChainStatuses[((k + v) % 4) + 1],
     err |-> IF (k + v) % 3 = 0 THEN "InstructionError" ELSE Null]

\* how many signatures the chain may hold for the address
ChainLengths == {0, 1, HistoryLimit + ExtraSigs}

\* getSignaturesForAddress(address, { limit }): the newest `limit` signatures
SignaturesFor(len, v, limit) ==
    [k \in 1..(IF len < limit THEN len ELSE limit) |-> SignatureInfo(k, v)]

\* { limit: 10 }
RequestedLimit == HistoryLimit

HistoryAnswers ==
    {Ok(SignaturesFor(len, v, RequestedLimit)) : len \in ChainLengths, v \in 0..1}
        \cup {Thrown}

\* tx.blockTime || 0
OrZero(opt) == IF opt = <<>> THEN 0 ELSE opt[1]

\* the TransactionItem of one signature
FormatTx(tx) ==
    [signature |-> tx.signature,
     time |-> OrZero(tx.blockTime) * 1000,
     status |-> tx.confirmationStatus,
     err |-> tx.err]

\* signatures.map(...)
Formatted(signatures) == [k \in 1..Len(signatures) |-> FormatTx(signatures[k])]

\* catch { console.error("History fetch failed", error) }
HistoryFailureLog == "History fetch failed"

\* what the runtime reports for a promise rejected with no handler
UncaughtLog == "Uncaught (in promise)"


\* mutant: handleFetchHistory awaits getSignaturesForAddress outside try
HistoryLogUncaught(r) == IF r.ok THEN NoLog ELSE UncaughtLog

\* what handleFetchHistory logs after getSignaturesForAddress answered r
HistoryLog(r) == IF r.ok THEN NoLog ELSE HistoryFailureLog

\* the Recent Activity refresh button
ClickFetchHistory ==
    /\ HasRoom(1)
    /\ tasks' = FetchHistoryCall(connected, connected, tasks)
    /\ alert' = NoAlert
    /\ logged' = NoLog
    /\ UNCHANGED stale
    /\ UNCHANGED <<connected, balance, userTokens, transactions,
                   isLoadingBalance, isAirdropping, isSending, airdropAmount>>

\* getSignaturesForAddress answers r
HistoryResume(i, r) ==
    /\ i \in 1..Len(tasks["history"])
    /\ transactions' = IF r.ok THEN Formatted(r.value) ELSE transactions
    /\ tasks' = Drop(tasks, "history", i)
    /\ alert' = NoAlert
    /\ logged' = HistoryLog(r)
    /\ UNCHANGED stale
    /\ UNCHANGED <<connected, balance, userTokens,
                   isLoadingBalance, isAirdropping, isSending, airdropAmount>>

(* ------------------------------ the system ---------------------------- *)

\* the invocations of handler k that are waiting
Waiting(k) == DOMAIN tasks[k]

\* the accounts of some waiting fetchTokens
Listed == 1..(MaxAccounts + 1)

Next ==
    \/ \E conn \in BOOLEAN : ConnectionChange(conn)
    \/ ClickRefreshBalance
    \/ \E i \in Waiting("balance"), r \in BalanceAnswers : BalanceResume(i, r)
    \/ \E a \in AirdropInputs : TypeAirdropAmount(a)
    \/ ClickAirdrop
    \/ \E i \in Waiting("airdrop") : AirdropAdvance(i)
    \/ \E i \in Waiting("airdrop") : AirdropFail(i)
    \/ \E i \in Waiting("airdrop"), r \in BalanceAnswers : AirdropFinish(i, r)
    \/ \E cap \in BOOLEAN : ClickSign(cap)
    \/ \E i \in Waiting("sign"), r \in SignAnswers : SignResume(i, r)
    \/ \E amt \in TransferAmounts, rcv \in ReceiverInputs : ClickSend(amt, rcv)
    \/ \E i \in Waiting("send") : SendAdvance(i)
    \/ \E i \in Waiting("send") : SendFail(i)
    \/ ClickFetchTokens
    \/ \E i \in Waiting("tokens"), r \in TokenAccountAnswers : TokensEnumerated(i, r)
    \/ \E i \in Waiting("tokens"), j \in Listed, r \in AllMetadataAnswers :
           MetadataResume(i, j, r)
    \/ ClickFetchHistory
    \/ \E i \in Waiting("history"), r \in HistoryAnswers : HistoryResume(i, r)

Spec == Init /\ [][Next]_vars

(***************************************************************************)
(* The handlers of one card share no state with those of another: the     *)
(* balance, the token list and the history are written by disjoint sets   *)
(* of actions.  The specifications below are Spec with the user working   *)
(* one card; the fetches the effect starts for the other cards are        *)
(* answered by a failing RPC, which leaves their caches alone.            *)
(***************************************************************************)

\* the connection-state effect and the answers to the fetches it starts
NextLifecycle ==
    \/ \E conn \in BOOLEAN : ConnectionChange(conn)
    \/ \E i \in Waiting("balance"), r \in BalanceAnswers : BalanceResume(i, r)
    \/ \E i \in Waiting("tokens"), r \in TokenAccountAnswers : TokensEnumerated(i, r)
    \/ \E i \in Waiting("tokens"), j \in Listed, r \in AllMetadataAnswers :
           MetadataResume(i, j, r)
    \/ \E i \in Waiting("history"), r \in HistoryAnswers : HistoryResume(i, r)

SpecLifecycle == Init /\ [][NextLifecycle]_vars

\* the balance card, the transfer card and the airdrop
NextFunds ==
    \/ \E conn \in BOOLEAN : ConnectionChange(conn)
    \/ ClickRefreshBalance
    \/ \E i \in Waiting("balance"), r \in BalanceAnswers : BalanceResume(i, r)
    \/ \E a \in AirdropInputs : TypeAirdropAmount(a)
    \/ ClickAirdrop
    \/ \E i \in Waiting("airdrop") : AirdropAdvance(i)
    \/ \E i \in Waiting("airdrop") : AirdropFail(i)
    \/ \E i \in Waiting("airdrop"), r \in BalanceAnswers : AirdropFinish(i, r)
    \/ \E amt \in TransferAmounts, rcv \in ReceiverInputs : ClickSend(amt, rcv)
    \/ \E i \in Waiting("send") : SendAdvance(i)
    \/ \E i \in Waiting("send") : SendFail(i)
    \/ \E i \in Waiting("tokens") : TokensEnumerated(i, Thrown)
    \/ \E i \in Waiting("history") : HistoryResume(i, Thrown)

SpecFunds == Init /\ [][NextFunds]_vars

\* SpecFunds when every external call a handler awaits eventually returns or throws
FairFunds ==
    /\ SpecFunds
    /\ WF_vars(\E i \in Waiting("balance"), r \in BalanceAnswers : BalanceResume(i, r))
    /\ WF_vars(\E i \in Waiting("airdrop") : AirdropAdvance(i) \/ AirdropFail(i))
    /\ WF_vars(\E i \in Waiting("airdrop"), r \in BalanceAnswers : AirdropFinish(i, r))
    /\ WF_vars(\E i \in Waiting("send") : SendAdvance(i) \/ SendFail(i))

\* the token card
NextTokens ==
    \/ \E conn \in BOOLEAN : ConnectionChange(conn)
    \/ ClickFetchTokens
    \/ \E i \in Waiting("tokens"), r \in TokenAccountAnswers : TokensEnumerated(i, r)
    \/ \E i \in Waiting("tokens"), j \in Listed, r \in AllMetadataAnswers :
           MetadataResume(i, j, r)
    \/ \E i \in Waiting("balance") : BalanceResume(i, Thrown)
    \/ \E i \in Waiting("history") : HistoryResume(i, Thrown)

SpecTokens == Init /\ [][NextTokens]_vars

\* the history card
NextHistory ==
    \/ \E conn \in BOOLEAN : ConnectionChange(conn)
    \/ ClickFetchHistory
    \/ \E i \in Waiting("history"), r \in HistoryAnswers : HistoryResume(i, r)
    \/ \E i \in Waiting("balance"), r \in BalanceAnswers : BalanceResume(i, r)
    \/ \E i \in Waiting("tokens") : TokensEnumerated(i, Thrown)

SpecHistory == Init /\ [][NextHistory]_vars

\* the sign button
NextSign ==
    \/ \E conn \in BOOLEAN : ConnectionChange(conn)
    \/ \E cap \in BOOLEAN : ClickSign(cap)
    \/ \E i \in Waiting("sign"), r \in SignAnswers : SignResume(i, r)
    \/ \E i \in Waiting("balance"), r \in BalanceAnswers : BalanceResume(i, r)
    \/ \E i \in Waiting("tokens") : TokensEnumerated(i, Thrown)
    \/ \E i \in Waiting("history") : HistoryResume(i, Thrown)

SpecSign == Init /\ [][NextSign]_vars

\* the three caches: the effect and the three refresh buttons
NextCaches ==
    \/ \E conn \in BOOLEAN : ConnectionChange(conn)
    \/ ClickRefreshBalance
    \/ \E i \in Waiting("balance"), r \in BalanceAnswers : BalanceResume(i, r)
    \/ ClickFetchTokens
    \/ \E i \in Waiting("tokens"), r \in TokenAccountAnswers : TokensEnumerated(i, r)
    \/ \E i \in Waiting("tokens"), j \in Listed, r \in AllMetadataAnswers :
           MetadataResume(i, j, r)
    \/ ClickFetchHistory
    \/ \E i \in Waiting("history"), r \in HistoryAnswers : HistoryResume(i, r)

SpecCaches == Init /\ [][NextCaches]_vars

\* one answer of each external call that fulfils, and its failure
OneBalanceAnswer == {Ok(1500000000), Thrown}

OneTokenAnswer == {Ok(AccountList(1)), Thrown}

OneHistoryAnswer == {Ok(SignaturesFor(1, 0, RequestedLimit)), Thrown}

\* the six handlers, each external call fulfilling or failing
NextHandlers ==
    \/ \E conn \in BOOLEAN : ConnectionChange(conn)
    \/ ClickRefreshBalance
    \/ \E i \in Waiting("balance"), r \in OneBalanceAnswer : BalanceResume(i, r)
    \/ \E a \in AirdropInputs : TypeAirdropAmount(a)
    \/ ClickAirdrop
    \/ \E i \in Waiting("airdrop") : AirdropAdvance(i)
    \/ \E i \in Waiting("airdrop") : AirdropFail(i)
    \/ \E i \in Waiting("airdrop"), r \in OneBalanceAnswer : AirdropFinish(i, r)
    \/ \E cap \in BOOLEAN : ClickSign(cap)
    \/ \E i \in Waiting("sign"), r \in SignAnswers : SignResume(i, r)
    \/ \E amt \in TransferAmounts, rcv \in ReceiverInputs : ClickSend(amt, rcv)
    \/ \E i \in Waiting("send") : SendAdvance(i)
    \/ \E i \in Waiting("send") : SendFail(i)
    \/ ClickFetchTokens
    \/ \E i \in Waiting("tokens"), r \in OneTokenAnswer : TokensEnumerated(i, r)
    \/ \E i \in Waiting("tokens"), j \in Listed, r \in AllMetadataAnswers :
           MetadataResume(i, j, r)
    \/ ClickFetchHistory
    \/ \E i \in Waiting("history"), r \in OneHistoryAnswer : HistoryResume(i, r)

SpecHandlers == Init /\ [][NextHandlers]_vars

(* =============================== claims =============================== *)

\* C1: a transfer whose amount is at least the cached balance is refused with
\* the failure alert before wallet.sendTransaction or any RPC call is made.
C1_InsufficientBalanceRejected ==
    [][\A amt \in TransferAmounts, rcv \in ReceiverInputs :
          (ClickSend(amt, rcv) /\ NumGeq(amt, balance))
              => (alert' = SendFailureAlert /\ tasks' = tasks)]_vars

\* C2: when the wallet disconnects, the effect stores balance 0, no token and
\* no transaction, whatever the three caches held.
C2_DisconnectResets ==
    [][(connected /\ ~connected')
          => (balance' = Zero /\ userTokens' = <<>> /\ transactions' = <<>>)]_vars

\* C2 witness: the wallet is connected and all three caches are filled, the
\* state a disconnect resets.
C2_Witness ==
    /\ connected
    /\ balance # Zero
    /\ userTokens # <<>>
    /\ transactions # <<>>

\* C3: a successful getBalance stores its lamports divided by LAMPORTS_PER_SOL,
\* and the stored balance is never negative.
C3_BalanceScaled ==
    /\ [](balance.whole >= 0 /\ balance.nano >= 0)
    /\ [][\A r \in BalanceAnswers :
             (/\ r.ok
              /\ \/ \E i \in Waiting("balance") : BalanceResume(i, r)
                 \/ \E i \in Waiting("airdrop") : AirdropFinish(i, r))
                 => /\ balance'.nano \in 0..(LAMPORTS_PER_SOL - 1)
                    /\ (r.value - balance'.nano) % LAMPORTS_PER_SOL = 0
                    /\ (r.value - balance'.nano) \div LAMPORTS_PER_SOL
                           = balance'.whole]_vars

\* C3 witness: 1500000000 lamports were fetched and 1.5 is stored.
C3_Witness == balance = Num(1, 500000000) /\ ~isLoadingBalance

\* a handleShowBalance is waiting for getBalance, called by itself or by handleAirdrop
BalanceFetchOutstanding ==
    \/ tasks["balance"] # <<>>
    \/ \E i \in 1..Len(tasks["airdrop"]) : tasks["airdrop"][i].pc = "getBalance"

\* C4: a handler that ends, by success or by failure, leaves the busy-flag it
\* set cleared, so a flag is set only while an invocation is outstanding; and
\* when every external call returns or throws, no flag stays set forever.
C4_BusyFlagsCleared ==
    /\ [](isLoadingBalance => BalanceFetchOutstanding)
    /\ [](isAirdropping => tasks["airdrop"] # <<>>)
    /\ [](isSending => tasks["send"] # <<>>)
    /\ [][/\ Len(tasks'["balance"]) < Len(tasks["balance"]) => ~isLoadingBalance'
          /\ Len(tasks'["airdrop"]) < Len(tasks["airdrop"]) => ~isAirdropping'
          /\ Len(tasks'["send"]) < Len(tasks["send"]) => ~isSending']_vars
    /\ isLoadingBalance ~> ~isLoadingBalance
    /\ isAirdropping ~> ~isAirdropping
    /\ isSending ~> ~isSending

\* C4 witness: an airdrop has just failed and its flag is cleared, while a
\* transfer and a balance fetch are still outstanding with their flags set.
C4_Witness ==
    /\ alert = AirdropFailureAlert
    /\ ~isAirdropping
    /\ isSending
    /\ isLoadingBalance

\* the accounts of a fetchTokens waiting for metadata whose resolution threw,
\* when the answer r to the j-th is the last one
FailedAccounts(t, j, r) ==
    {m \in 1..Len(t.accounts) :
        IF m = j THEN ~r.ok ELSE t.results[m].token = <<>>}

\* C5: when the enumeration lists N accounts and metadata resolution throws for
\* K of them, the stored list has N - K entries, none of them for an account
\* whose resolution threw and one for every other account.
C5_FailedMetadataDropped ==
    [][Len(tasks'["tokens"]) < Len(tasks["tokens"]) =>
          /\ \A i \in Waiting("tokens"), j \in Listed, r \in AllMetadataAnswers :
                MetadataResume(i, j, r)
                    => LET t == tasks["tokens"][i]
                           failed == FailedAccounts(t, j, r)
                           stored == {userTokens'[k].pubKey : k \in 1..Len(userTokens')}
                       IN  /\ Len(userTokens') = Len(t.accounts) - Cardinality(failed)
                           /\ \A m \in 1..Len(t.accounts) :
                                  t.accounts[m].pubkey \in stored <=> m \notin failed
          /\ \A i \in Waiting("tokens") :
                TokensEnumerated(i, Ok(<<>>)) => userTokens' = <<>>]_vars

\* C5 witness: of two accounts listed, the metadata of the first threw and the
\* list holds the second alone.
C5_Witness ==
    /\ Len(userTokens) = 1
    /\ userTokens[1].pubKey = 2

\* C6: the history holds at most the requested 10 records, each with a status
\* among processed, confirmed, finalized and unknown.
C6_HistoryStatuses ==
    /\ Len(transactions) <= HistoryLimit
    /\ \A k \in 1..Len(transactions) :
           transactions[k].status \in {"processed", "confirmed", "finalized", "unknown"}

\* C7: after the mount and after every change of wallet.connected, a connected
\* wallet has one more balance refresh, token listing and history fetch started
\* and nothing else, and a disconnected one has the three caches reset.
C7_LifecycleTrigger ==
    /\ IF connected
       THEN /\ Len(tasks["balance"]) = 1
            /\ Len(tasks["tokens"]) = 1
            /\ Len(tasks["history"]) = 1
            /\ InFlight(tasks) = 3
       ELSE /\ balance = Zero /\ userTokens = <<>> /\ transactions = <<>>
            /\ InFlight(tasks) = 0
    /\ [][connected' # connected
             => IF connected'
                THEN /\ Len(tasks'["balance"]) = Len(tasks["balance"]) + 1
                     /\ Len(tasks'["tokens"]) = Len(tasks["tokens"]) + 1
                     /\ Len(tasks'["history"]) = Len(tasks["history"]) + 1
                     /\ InFlight(tasks') = InFlight(tasks) + 3
                     /\ tasks'["balance"][Len(tasks'["balance"])].pc = "getBalance"
                     /\ tasks'["tokens"][Len(tasks'["tokens"])].pc
                            = "getParsedTokenAccountsByOwner"
                     /\ tasks'["history"][Len(tasks'["history"])].pc
                            = "getSignaturesForAddress"
                ELSE /\ balance' = Zero /\ userTokens' = <<>> /\ transactions' = <<>>
                     /\ tasks' = tasks]_vars

\* C7 witness: the wallet was connected at the mount and has disconnected: the
\* three fetches the effect started are outstanding and the caches are reset.
C7_Witness ==
    /\ ~connected
    /\ Len(tasks["balance"]) = 1 /\ tasks["balance"][1].pc = "getBalance"
    /\ Len(tasks["tokens"]) = 1
    /\ Len(tasks["history"]) = 1
    /\ balance = Zero /\ userTokens = <<>> /\ transactions = <<>>

\* the pairs (call awaited, next call awaited) of handleAirdrop
AirdropOrder ==
    { <<"requestAirdrop", "getLatestBlockhash">>,
      <<"getLatestBlockhash", "confirmTransaction">>,
      <<"confirmTransaction", "getBalance">> }

\* C8: handleAirdrop awaits requestAirdrop, getLatestBlockhash and
\* confirmTransaction in this order; it refreshes the balance only after
\* confirmTransaction returned and alerts success only after that refresh; an
\* invocation that ends at one of the three calls alerts failure, not success.
C8_AirdropSequence ==
    [][LET a == tasks["airdrop"]
           b == tasks'["airdrop"]
       IN  /\ Len(a) <= 1 /\ Len(b) <= 1
           /\ (a = <<>> /\ b # <<>>) => b[1].pc = "requestAirdrop"
           /\ (a # <<>> /\ b # <<>>)
                  => (b[1].pc = a[1].pc \/ <<a[1].pc, b[1].pc>> \in AirdropOrder)
           /\ (a # <<>> /\ b = <<>>)
                  => alert' = IF a[1].pc = "getBalance"
                              THEN "Airdrop successful!" ELSE "Airdrop failed"
           /\ alert' = "Airdrop successful!"
                  => (a # <<>> /\ a[1].pc = "getBalance" /\ b = <<>>)]_vars

\* C8 witness: an airdrop was confirmed, the refresh stored the new balance and
\* success was alerted.
C8_Witness ==
    /\ alert = AirdropSuccessAlert
    /\ balance # Zero
    /\ ~isAirdropping

\* C9: when the confirmation of a transfer returns, handleSendTokens alerts
\* success and starts one balance refresh and one history fetch; when the
\* receiver is malformed or sendTransaction, getLatestBlockhash or
\* confirmTransaction throws, it alerts failure and starts neither.
C9_SendRefreshes ==
    [][LET a == tasks["send"]
           b == tasks'["send"]
           started(k) == Len(tasks'[k]) - Len(tasks[k])
       IN  /\ (a # <<>> /\ b = <<>>)
                  => \/ /\ alert' = "Transaction successful!"
                        /\ a[1].pc = "confirmTransaction"
                        /\ started("balance") = 1 /\ started("history") = 1
                        /\ tasks'["balance"][Len(tasks'["balance"])].pc = "getBalance"
                        /\ tasks'["history"][Len(tasks'["history"])].pc
                               = "getSignaturesForAddress"
                     \/ /\ alert' = "Transaction failed"
                        /\ started("balance") = 0 /\ started("history") = 0
           /\ alert' = "Transaction successful!" => (a # <<>> /\ b = <<>>)
           /\ \A i \in Waiting("send") :
                  (SendAdvance(i) /\ a[i].pc = "confirmTransaction")
                      => alert' = "Transaction successful!"
           /\ \A amt \in TransferAmounts, rcv \in ReceiverInputs :
                  (ClickSend(amt, rcv) /\ rcv # "validKey")
                      => (alert' = "Transaction failed" /\ tasks' = tasks)]_vars

\* C9 witness: a transfer was confirmed: success is alerted and the two
\* refreshes are waiting for their answers.
C9_Witness ==
    /\ alert = SendSuccessAlert
    /\ tasks["send"] = <<>>
    /\ tasks["balance"] # <<>>
    /\ tasks["history"] # <<>>
    /\ isLoadingBalance /\ ~isSending

\* C10: success is alerted only when wallet.signMessage returned a signature
\* that is intact, over the fixed message and by the wallet's key; without the
\* signMessage capability no signing request is made; the missing capability
\* and a signature that fails verification both raise the one failure alert.
C10_SignVerified ==
    [][/\ \A i \in Waiting("sign"), r \in SignAnswers :
             SignResume(i, r)
                 => IF r.ok /\ r.value.intact /\ r.value.msg = Message
                        /\ r.value.signer = WalletKey
                    THEN alert' = "Message signed and verified successfully!"
                    ELSE alert' = "Sign message failed"
       /\ alert' = "Message signed and verified successfully!"
             => Len(tasks'["sign"]) < Len(tasks["sign"])
       /\ ClickSign(FALSE) => (alert' = "Sign message failed" /\ tasks' = tasks)
       /\ Len(tasks'["sign"]) > Len(tasks["sign"]) => connected]_vars

\* C10 witness: a signature was returned and verified, and success is alerted.
C10_Witness ==
    /\ alert = SignSuccessAlert
    /\ connected

\* C11: a step in which a fetch fails (its handler logs the failure of
\* getBalance, of getParsedTokenAccountsByOwner or of getSignaturesForAddress)
\* leaves the cache of that fetch as it was.
C11_FailedFetchKeepsCache ==
    [][/\ logged' = BalanceFailureLog => balance' = balance
       /\ logged' = TokenFailureLog => userTokens' = userTokens
       /\ logged' = HistoryFailureLog => transactions' = transactions
       /\ \A i \in Waiting("balance") : BalanceResume(i, Thrown) => balance' = balance
       /\ \A i \in Waiting("tokens") :
              TokensEnumerated(i, Thrown) => userTokens' = userTokens
       /\ \A i \in Waiting("history") :
              HistoryResume(i, Thrown) => transactions' = transactions]_vars

\* C11 witness: a balance query has just failed while the three caches hold
\* what earlier fetches stored.
C11_Witness ==
    /\ logged = BalanceFailureLog
    /\ balance # Zero
    /\ userTokens # <<>>
    /\ transactions # <<>>

\* the notifications of a failure
FailureAlerts == {AirdropFailureAlert, SignFailureAlert, SendFailureAlert}

\* the step is the failure of an external call some handler awaits
CallFails ==
    \/ \E i \in Waiting("balance") : BalanceResume(i, Thrown)
    \/ \E i \in Waiting("airdrop") : AirdropFail(i) \/ AirdropFinish(i, Thrown)
    \/ \E i \in Waiting("sign") : SignResume(i, Thrown)
    \/ \E i \in Waiting("send") : SendFail(i)
    \/ \E i \in Waiting("tokens") : TokensEnumerated(i, Thrown)
    \/ \E i \in Waiting("tokens"), j \in Listed : MetadataResume(i, j, Thrown)
    \/ \E i \in Waiting("history") : HistoryResume(i, Thrown)

C13_LastWriteWins ==
    [][\A i \in Waiting("balance"), r \in BalanceAnswers :
          (BalanceResume(i, r) /\ r.ok)
              => /\ balance' = ScaledBalance(r.value)
                 /\ stale' = tasks["balance"][i].overtaken]_vars

\* C13 witness: refresh A was started before refresh B, the answer to B
\* (1.5 SOL) was stored first and the answer to A (0 SOL) last; no refresh is
\* outstanding and the balance shown is the answer to A.
C13_Witness ==
    /\ stale = <<Num(1, 500000000)>>
    /\ balance = Zero
    /\ tasks["balance"] = <<>>
    /\ ~isLoadingBalance

\* C14 as stated: for the balance refresh, the airdrop and the transfer, while
\* an invocation is outstanding the busy-flag is set, and the control, being
\* disabled, starts no second invocation.
C14_BusyDisablesControl ==
    /\ [](/\ BalanceFetchOutstanding => isLoadingBalance
          /\ tasks["airdrop"] # <<>> => isAirdropping
          /\ tasks["send"] # <<>> => isSending)
    /\ [][/\ (ClickRefreshBalance /\ BalanceFetchOutstanding) => tasks' = tasks
          /\ (ClickAirdrop /\ tasks["airdrop"] # <<>>) => tasks' = tasks
          /\ \A amt \in TransferAmounts, rcv \in ReceiverInputs :
                (ClickSend(amt, rcv) /\ tasks["send"] # <<>>) => tasks' = tasks]_vars

\* C14 amended: while an airdrop is outstanding isAirdropping is set and the
\* airdrop button is disabled, while a transfer is outstanding isSending is
\* set and the Send Transaction button is disabled, and at most one airdrop
\* and one transfer are in flight; the Refresh Balance button is never
\* disabled.
C14_AirdropAndSendExclusive ==
    /\ Len(tasks["airdrop"]) <= 1
    /\ Len(tasks["send"]) <= 1
    /\ tasks["airdrop"] # <<>> => (isAirdropping /\ AirdropDisabled(isAirdropping))
    /\ tasks["send"] # <<>> => (isSending /\ SendDisabled(isSending, connected))
    /\ ~RefreshDisabled(isLoadingBalance)

\* C14 witness: an airdrop, a transfer and a balance refresh are outstanding,
\* each with its busy-flag set.
C14_Witness ==
    /\ tasks["airdrop"] # <<>>
    /\ tasks["send"] # <<>>
    /\ tasks["balance"] # <<>>
    /\ isAirdropping /\ isSending /\ isLoadingBalance

\* C15: while the wallet is disconnected the three caches stay as the effect
\* reset them: balance 0, no token, no transaction; no answer to a request
\* issued before the disconnect is stored after the reset.
C15_NoAnswerAfterReset ==
    ~connected => (balance = Zero /\ userTokens = <<>> /\ transactions = <<>>)

====
